---- MODULE Spec2Model ----
(***************************************************************************)
(* A model of the overlay store of the editor (src/src/overlay.rs):        *)
(* Overlay's range predicates and OverlayManager's mutation and query      *)
(* methods, each translated from its code; of the command palette's        *)
(* filter (src/src/commands.rs); and of the prompt (src/src/prompt.rs).    *)
(*                                                                         *)
(* An Overlay value is modelled by its five fields together with a tag     *)
(* `uid`, the number of the add call that moved the value into the store.  *)
(* The tag stands for the identity of the value: it lets a property speak  *)
(* of "the same overlay" before and after a call.  No modelled method      *)
(* reads `uid`.                                                            *)
(***************************************************************************)
EXTENDS Integers, Sequences, FiniteSets, TLC

\* ---------------------------------------------------------------- bounds

\* Byte offsets range over 0..MaxPos.
MaxPos == 2

\* At most MaxAdds calls of add in one behaviour.
MaxAdds == 3

\* At most MaxWrites writes through get_by_id_mut in one behaviour.
MaxWrites == 1

\* A query handed to filter_commands has at most MaxQueryLen chars.
MaxQueryLen == 3

\* The input of a prompt grows to at most MaxInputLen chars.
MaxInputLen == 3

\* A prompt is built with at most MaxSuggestions suggestions.
MaxSuggestions == 3

Positions == 0..MaxPos

\* Range<usize> values with start <= end (the producer's precondition).
Ranges == {r \in [start : Positions, end : Positions] : r.start <= r.end}

\* Priority = i32; a negative, the default 0 and a positive value.
Priorities == {-1, 0, 1}

\* Option<String>: None is <<>>, Some(s) is <<s>>.
None == <<>>

Some(x) == <<x>>

IdStrings == {"a", "b"}

\* ------------------------------------------------------- Overlay (value)

\* enum OverlayFace, the variants the code builds.  A Color is written as the
\* string of its Rust value, an UnderlineStyle likewise.
Underline(color, style) ==
    [kind |-> "Underline", color |-> color, style |-> style]

Background(color) ==
    [kind |-> "Background", color |-> color]

\* struct Overlay
Overlay(range, face, priority, id, message, uid) ==
    [range |-> range, face |-> face, priority |-> priority, id |-> id,
     message |-> message, uid |-> uid]

\* Overlay::new: priority 0, no id, no message.
new(range, face) == Overlay(range, face, 0, None, None, 0)

\* Overlay::with_priority: no id, no message.
with_priority(range, face, priority) ==
    Overlay(range, face, priority, None, None, 0)

\* Overlay::with_id: priority 0, no message.
with_id(range, face, id) == Overlay(range, face, 0, Some(id), None, 0)

\* The face of the overlays the producers of SpecCore and Spec add: the one of
\* the tests.  No method of the store reads the face.
PlainFace == Background("Red")

\* The values a producer hands to add: those the three constructors build
\* (uid is set by Add).  The builder with_priority_value, which would give an
\* overlay with an id a priority other than 0, is left out of SpecCore's
\* inputs; in Spec such overlays arise by writes through get_by_id_mut.
Inputs ==
    {new(r, PlainFace) : r \in Ranges}
    \cup {with_priority(r, PlainFace, p) : r \in Ranges, p \in Priorities}
    \cup {with_id(r, PlainFace, s) : r \in Ranges, s \in IdStrings}

\* ------------------------------------------------------ the preset overlays

\* Overlay::error with the assignment of the message left out.
error_without_message(range, message) ==
    with_priority(range, Underline("Red", "Wavy"), 10)

\* Overlay::error
error(range, message) ==
    [with_priority(range, Underline("Red", "Wavy"), 10)
        EXCEPT !.message = message]

\* Overlay::warning
warning(range, message) ==
    [with_priority(range, Underline("Yellow", "Wavy"), 5)
        EXCEPT !.message = message]

\* Overlay::info
info(range, message) ==
    [with_priority(range, Underline("Blue", "Wavy"), 3)
        EXCEPT !.message = message]

\* Overlay::hint
hint(range, message) ==
    [with_priority(range, Underline("Gray", "Dotted"), 1)
        EXCEPT !.message = message]

\* Overlay::selection
selection(range) ==
    with_priority(range, Background("Rgb(38, 79, 120)"), -10)

\* Overlay::search_match with the sign of the priority lost.
search_match_above(range) ==
    with_priority(range, Background("Rgb(72, 72, 0)"), 5)

\* Overlay::search_match
search_match(range) ==
    with_priority(range, Background("Rgb(72, 72, 0)"), -5)

\* Option<String> messages handed to the diagnostic presets.
Messages == {None, Some("msg")}

\* contains with the end offset included.
contains_through_end(o, position) ==
    o.range.start <= position /\ position <= o.range.end

\* Range::contains, as Overlay::contains calls it: the start bound is
\* Included(start), the end bound Excluded(end).
contains(o, position) ==
    o.range.start <= position /\ position < o.range.end

\* overlaps with the comparisons made inclusive: touching ranges overlap.
overlaps_touching(o, range) ==
    o.range.start <= range.end /\ range.start <= o.range.end

\* Overlay::overlaps.
overlaps(o, range) ==
    o.range.start < range.end /\ range.start < o.range.end

\* ------------------------------------------------------ slice::sort_by_key

\* InsertByKey with the comparison made strict: x goes in front of its ties.
RECURSIVE InsertByKeyBeforeTies(_, _)
InsertByKeyBeforeTies(s, x) ==
    IF s = <<>> THEN <<x>>
    ELSE IF s[Len(s)].priority < x.priority
         THEN Append(s, x)
         ELSE Append(InsertByKeyBeforeTies(SubSeq(s, 1, Len(s) - 1), x), s[Len(s)])

\* One insertion of the stable sort: x goes behind every element whose key
\* is not greater than its own.
RECURSIVE InsertByKey(_, _)
InsertByKey(s, x) ==
    IF s = <<>> THEN <<x>>
    ELSE IF s[Len(s)].priority <= x.priority
         THEN Append(s, x)
         ELSE Append(InsertByKey(SubSeq(s, 1, Len(s) - 1), x), s[Len(s)])

\* self.overlays.sort_by_key(|o| o.priority): a stable sort, ascending.
RECURSIVE SortByKey(_)
SortByKey(s) ==
    IF Len(s) <= 1 THEN s
    ELSE InsertByKey(SortByKey(SubSeq(s, 1, Len(s) - 1)), s[Len(s)])

\* ------------------------------------------- OverlayManager, as functions

\* The closure of remove_by_id, get_by_id and get_by_id_mut:
\* o.id.as_deref() == Some(id).
IdIs(o, id) == o.id = Some(id)

\* add as an upsert: overlays carrying the new overlay's id are dropped first.
add_replacing_id(s, overlay) ==
    SortByKey(Append(SelectSeq(s, LAMBDA o :
                         overlay.id = None \/ o.id # overlay.id),
                     overlay))

\* add placing the new overlay by its key and sorting nothing else.
add_insert_only(s, overlay) == InsertByKey(s, overlay)

\* add with the sort left out.
add_push_only(s, overlay) == Append(s, overlay)

\* add: push, then sort_by_key.  The store after the call.
add(s, overlay) == SortByKey(Append(s, overlay))

\* remove_by_id taking out the first overlay with the id only.
remove_first_by_id(s, id) ==
    IF \E i \in DOMAIN s : s[i].id = Some(id)
    THEN LET k == CHOOSE i \in DOMAIN s :
                    /\ s[i].id = Some(id)
                    /\ \A j \in 1..(i - 1) : s[j].id # Some(id)
         IN  SubSeq(s, 1, k - 1) \o SubSeq(s, k + 1, Len(s))
    ELSE s

\* remove_by_id: retain(|o| o.id.as_deref() != Some(id)).
remove_by_id(s, id) == SelectSeq(s, LAMBDA o : ~IdIs(o, id))

\* remove_in_range with the comparisons made inclusive: an overlay that only
\* touches the range goes too.
remove_in_range_touching(s, range) ==
    SelectSeq(s, LAMBDA o :
        ~(o.range.start <= range.end /\ range.start <= o.range.end))

\* remove_in_range: retain(|o| !o.overlaps(range)).
remove_in_range(s, range) == SelectSeq(s, LAMBDA o : ~overlaps(o, range))

\* at_position with find in the place of filter: the first match only.
at_position_first(s, position) ==
    IF \E i \in DOMAIN s : contains(s[i], position)
    THEN LET k == CHOOSE i \in DOMAIN s :
                    /\ contains(s[i], position)
                    /\ \A j \in 1..(i - 1) : ~contains(s[j], position)
         IN  <<s[k]>>
    ELSE <<>>

\* at_position: iter().filter(|o| o.contains(position)).collect().
at_position(s, position) == SelectSeq(s, LAMBDA o : contains(o, position))

\* in_range keeping the overlays that lie within the range.
in_range_within(s, range) ==
    SelectSeq(s, LAMBDA o :
        range.start <= o.range.start /\ o.range.end <= range.end)

\* in_range: iter().filter(|o| o.overlaps(range)).collect().
in_range(s, range) == SelectSeq(s, LAMBDA o : overlaps(o, range))

\* iter().position(..) of the first overlay with the id; 0 when there is none.
FirstWithId(s, id) ==
    IF \E i \in DOMAIN s : IdIs(s[i], id)
    THEN CHOOSE i \in DOMAIN s :
            /\ IdIs(s[i], id)
            /\ \A j \in 1..(i - 1) : ~IdIs(s[j], id)
    ELSE 0

\* get_by_id with rfind in the place of find: the last overlay with the id.
get_by_id_last(s, id) ==
    IF \E i \in DOMAIN s : IdIs(s[i], id)
    THEN Some(s[CHOOSE i \in DOMAIN s :
                    /\ IdIs(s[i], id)
                    /\ \A j \in (i + 1)..Len(s) : ~IdIs(s[j], id)])
    ELSE None

\* get_by_id: iter().find(..), an Option<&Overlay>.
get_by_id(s, id) ==
    IF FirstWithId(s, id) = 0 THEN None ELSE Some(s[FirstWithId(s, id)])

\* get_by_id_mut: iter_mut().find(..); the place in the vector of the overlay
\* the returned reference points to, 0 for None.
get_by_id_mut(s, id) == FirstWithId(s, id)

\* len
len(s) == Len(s)

\* is_empty
is_empty(s) == Len(s) = 0

\* all
all(s) == s

\* ------------------------------------------------- strings and characters

\* A String is modelled as the sequence of its chars, a char as the
\* one-character string that shows it.  Only a description, which no code
\* takes apart, is written as one string, and so is the message of a prompt.

\* The chars typed into a prompt: one of one byte, one of two bytes.
InputChars == {"a", "é"}

\* char::len_utf8 on the chars of the model.
len_utf8(ch) == IF ch = "é" THEN 2 ELSE 1

\* The byte offset at which the k-th char of s starts; for k = Len(s) + 1 the
\* length of s in bytes.
RECURSIVE ByteOffset(_, _)
ByteOffset(s, k) ==
    IF k <= 1 THEN 0 ELSE ByteOffset(s, k - 1) + len_utf8(s[k - 1])

\* String::len, in bytes.
str_len(s) == ByteOffset(s, Len(s) + 1)

\* str::is_char_boundary
is_char_boundary(s, idx) ==
    \E k \in 1..(Len(s) + 1) : ByteOffset(s, k) = idx

\* The number of the char that starts at the byte offset idx, a char boundary.
CharAt(s, idx) == CHOOSE k \in 1..(Len(s) + 1) : ByteOffset(s, k) = idx

\* String::insert panics unless idx lies on a char boundary.
String_insert_panics(s, idx) == ~is_char_boundary(s, idx)

\* String::insert
String_insert(s, idx, ch) ==
    SubSeq(s, 1, CharAt(s, idx) - 1) \o <<ch>>
        \o SubSeq(s, CharAt(s, idx), Len(s))

\* String::remove panics unless a char starts at idx.
String_remove_panics(s, idx) ==
    ~is_char_boundary(s, idx) \/ idx >= str_len(s)

\* String::remove: the char that starts at idx is taken out.
String_remove(s, idx) ==
    SubSeq(s, 1, CharAt(s, idx) - 1) \o SubSeq(s, CharAt(s, idx) + 1, Len(s))

UpperCase ==
    <<"A", "B", "C", "D", "E", "F", "G", "H", "I", "J", "K", "L", "M",
      "N", "O", "P", "Q", "R", "S", "T", "U", "V", "W", "X", "Y", "Z">>

LowerCase ==
    <<"a", "b", "c", "d", "e", "f", "g", "h", "i", "j", "k", "l", "m",
      "n", "o", "p", "q", "r", "s", "t", "u", "v", "w", "x", "y", "z">>

\* char::to_lowercase on the chars of the model: a letter A..Z becomes a..z,
\* every other char of the model is its own lower case.
char_to_lowercase(c) ==
    IF \E k \in DOMAIN UpperCase : UpperCase[k] = c
    THEN LowerCase[CHOOSE k \in DOMAIN UpperCase : UpperCase[k] = c]
    ELSE c

\* to_lowercase that leaves the string as it is.
to_lowercase_identity(s) == s

\* str::to_lowercase
to_lowercase(s) == [k \in DOMAIN s |-> char_to_lowercase(s[k])]

\* ------------------------------------------------------ the command palette

\* struct Command
Command(name, description, action) ==
    [name |-> name, description |-> description, action |-> action]

\* struct Suggestion
Suggestion(text, description, value) ==
    [text |-> text, description |-> description, value |-> value]

\* Suggestion::new
Suggestion_new(text) == Suggestion(text, None, None)

\* Suggestion::with_description
with_description(text, description) ==
    Suggestion(text, Some(description), None)

\* Suggestion::get_value
get_value(s) == IF s.value = None THEN s.text ELSE s.value[1]

\* get_all_commands: the static list.
get_all_commands == <<
    Command(<<"O", "p", "e", "n", " ", "F", "i", "l", "e">>,
            "Open a file in a new or existing buffer",
            "Open"),
    Command(<<"S", "a", "v", "e", " ", "F", "i", "l", "e">>,
            "Save the current buffer to disk",
            "Save"),
    Command(<<"Q", "u", "i", "t">>,
            "Exit the editor",
            "Quit"),
    Command(<<"S", "h", "o", "w", " ", "H", "e", "l", "p">>,
            "Display the help page with all keybindings",
            "ShowHelp"),
    Command(<<"U", "n", "d", "o">>,
            "Undo the last edit",
            "Undo"),
    Command(<<"R", "e", "d", "o">>,
            "Redo the last undone edit",
            "Redo"),
    Command(<<"C", "o", "p", "y">>,
            "Copy selection to clipboard",
            "Copy"),
    Command(<<"C", "u", "t">>,
            "Cut selection to clipboard",
            "Cut"),
    Command(<<"P", "a", "s", "t", "e">>,
            "Paste from clipboard",
            "Paste"),
    Command(<<"S", "e", "l", "e", "c", "t", " ", "A", "l", "l">>,
            "Select all text in the buffer",
            "SelectAll"),
    Command(<<"S", "e", "l", "e", "c", "t", " ", "W", "o", "r", "d">>,
            "Select the word under the cursor",
            "SelectWord"),
    Command(<<"S", "e", "l", "e", "c", "t", " ", "L", "i", "n", "e">>,
            "Select the current line",
            "SelectLine"),
    Command(<<"E", "x", "p", "a", "n", "d", " ", "S", "e", "l", "e",
              "c", "t", "i", "o", "n">>,
            "Expand the current selection by one word",
            "ExpandSelection"),
    Command(<<"A", "d", "d", " ", "C", "u", "r", "s", "o", "r", " ",
              "A", "b", "o", "v", "e">>,
            "Add a cursor on the line above",
            "AddCursorAbove"),
    Command(<<"A", "d", "d", " ", "C", "u", "r", "s", "o", "r", " ",
              "B", "e", "l", "o", "w">>,
            "Add a cursor on the line below",
            "AddCursorBelow"),
    Command(<<"A", "d", "d", " ", "C", "u", "r", "s", "o", "r", " ",
              "a", "t", " ", "N", "e", "x", "t", " ", "M", "a", "t",
              "c", "h">>,
            "Add a cursor at the next occurrence of the selection",
            "AddCursorNextMatch"),
    Command(<<"R", "e", "m", "o", "v", "e", " ", "S", "e", "c", "o",
              "n", "d", "a", "r", "y", " ", "C", "u", "r", "s", "o",
              "r", "s">>,
            "Remove all cursors except the primary",
            "RemoveSecondaryCursors")
    >>

\* The loop of the filter closure of filter_commands: name_lower is walked
\* from its i-th char on, current_char being the j-th char of query_lower
\* (None when j is past its end).  The value is the j the loop ends with.
RECURSIVE scan_name(_, _, _, _)
scan_name(name_lower, query_lower, i, j) ==
    IF i > Len(name_lower) THEN j
    ELSE IF j > Len(query_lower) THEN j
    ELSE IF query_lower[j] = name_lower[i]
         THEN scan_name(name_lower, query_lower, i + 1, j + 1)
         ELSE scan_name(name_lower, query_lower, i + 1, j)

\* The filter closure of filter_commands: current_char.is_none() after the
\* loop.
all_query_chars_matched(cmd, query_lower) ==
    scan_name(to_lowercase(cmd.name), query_lower, 1, 1) > Len(query_lower)

\* filter_commands
filter_commands(query) ==
    LET query_lower == to_lowercase(query)
        commands == get_all_commands
        kept == IF query = <<>> THEN commands
                ELSE SelectSeq(commands,
                         LAMBDA cmd : all_query_chars_matched(cmd, query_lower))
    IN  [k \in DOMAIN kept |->
            with_description(kept[k].name, kept[k].description)]

\* The chars a query is typed from, and the queries.
QueryChars == {"s", "S", "e", "c", " ", "x"}

Queries == UNION {[1..n -> QueryChars] : n \in 0..MaxQueryLen}

\* --------------------------------------------------------------- the prompt

\* struct Prompt.  selected_suggestion holds an index counted from 0, as in
\* the code; the sequence `suggestions` is indexed from 1.
Prompt(message, input, cursor_pos, prompt_type, suggestions, selected_suggestion) ==
    [message |-> message, input |-> input, cursor_pos |-> cursor_pos,
     prompt_type |-> prompt_type, suggestions |-> suggestions,
     selected_suggestion |-> selected_suggestion]

\* Prompt::new
Prompt_new(message, prompt_type) ==
    Prompt(message, <<>>, 0, prompt_type, <<>>, None)

\* Prompt::with_suggestions
with_suggestions(message, prompt_type, suggestions) ==
    Prompt(message, <<>>, 0, prompt_type, suggestions,
           IF suggestions = <<>> THEN None ELSE Some(0))

\* Prompt::cursor_left
cursor_left(p) ==
    IF p.cursor_pos > 0 THEN [p EXCEPT !.cursor_pos = p.cursor_pos - 1]
    ELSE p

\* cursor_right without the test against the length of the input.
cursor_right_unguarded(p) == [p EXCEPT !.cursor_pos = p.cursor_pos + 1]

\* Prompt::cursor_right
cursor_right(p) ==
    IF p.cursor_pos < str_len(p.input)
    THEN [p EXCEPT !.cursor_pos = p.cursor_pos + 1]
    ELSE p

\* Prompt::insert_char panics where String::insert does.
insert_char_panics(p, ch) == String_insert_panics(p.input, p.cursor_pos)

\* Prompt::insert_char
insert_char(p, ch) ==
    [p EXCEPT !.input = String_insert(p.input, p.cursor_pos, ch),
              !.cursor_pos = p.cursor_pos + len_utf8(ch)]

\* Prompt::backspace panics where String::remove does.
backspace_panics(p) ==
    p.cursor_pos > 0 /\ String_remove_panics(p.input, p.cursor_pos - 1)

\* Prompt::backspace
backspace(p) ==
    IF p.cursor_pos > 0
    THEN [p EXCEPT !.input = String_remove(p.input, p.cursor_pos - 1),
                   !.cursor_pos = p.cursor_pos - 1]
    ELSE p

\* Prompt::delete panics where String::remove does.
delete_panics(p) ==
    p.cursor_pos < str_len(p.input)
        /\ String_remove_panics(p.input, p.cursor_pos)

\* Prompt::delete
delete(p) ==
    IF p.cursor_pos < str_len(p.input)
    THEN [p EXCEPT !.input = String_remove(p.input, p.cursor_pos)]
    ELSE p

\* Prompt::move_to_start
move_to_start(p) == [p EXCEPT !.cursor_pos = 0]

\* Prompt::move_to_end
move_to_end(p) == [p EXCEPT !.cursor_pos = str_len(p.input)]

\* select_next_suggestion that stays on the last suggestion.
select_next_suggestion_clamped(p) ==
    IF p.suggestions # <<>>
    THEN [p EXCEPT !.selected_suggestion =
            Some(IF p.selected_suggestion = None THEN 0
                 ELSE IF p.selected_suggestion[1] + 1 < Len(p.suggestions)
                      THEN p.selected_suggestion[1] + 1
                      ELSE p.selected_suggestion[1])]
    ELSE p

\* Prompt::select_next_suggestion
select_next_suggestion(p) ==
    IF p.suggestions # <<>>
    THEN [p EXCEPT !.selected_suggestion =
            Some(IF p.selected_suggestion = None THEN 0
                 ELSE IF p.selected_suggestion[1] + 1 < Len(p.suggestions)
                      THEN p.selected_suggestion[1] + 1
                      ELSE 0)]
    ELSE p

\* Prompt::select_prev_suggestion
select_prev_suggestion(p) ==
    IF p.suggestions # <<>>
    THEN [p EXCEPT !.selected_suggestion =
            Some(IF p.selected_suggestion = None THEN 0
                 ELSE IF p.selected_suggestion[1] = 0
                      THEN Len(p.suggestions) - 1
                      ELSE p.selected_suggestion[1] - 1)]
    ELSE p

\* Prompt::selected_value
selected_value(p) ==
    IF p.selected_suggestion = None THEN None
    ELSE IF p.selected_suggestion[1] + 1 \in DOMAIN p.suggestions
         THEN Some(get_value(p.suggestions[p.selected_suggestion[1] + 1]))
         ELSE None

\* get_final_input that keeps what the user typed, when something was typed.
get_final_input_typed_first(p) ==
    IF p.input # <<>> \/ selected_value(p) = None THEN p.input
    ELSE selected_value(p)[1]

\* Prompt::get_final_input
get_final_input(p) ==
    IF selected_value(p) = None THEN p.input ELSE selected_value(p)[1]

\* The suggestions a prompt is built with: one without a value, one with.
SuggestionPool ==
    {Suggestion_new(<<"a">>), Suggestion(<<"b">>, None, Some(<<"c">>))}

SuggestionLists == UNION {[1..n -> SuggestionPool] : n \in 0..MaxSuggestions}

\* --------------------------------------------------------------- the state

VARIABLES
    overlays,   \* OverlayManager.overlays : Vec<Overlay>
    nextUid,    \* the number of add calls made so far, plus one
    op,         \* the last method called on the manager: its name, and how
                \* many overlays the call took out of the store
    nWrites,    \* the number of writes made through get_by_id_mut so far
    palette,    \* the query handed to filter_commands, and what it returned
    prompt,     \* the Prompt
    pcall,      \* the last method called on the prompt: its name, and the
                \* prompt as it was before the call
    panicked    \* a method of the prompt has panicked

overlayVars == <<overlays, nextUid, op, nWrites>>

promptVars == <<palette, prompt, pcall, panicked>>

vars == <<overlays, nextUid, op, nWrites, palette, prompt, pcall, panicked>>

Call(name, removed) == [name |-> name, removed |-> removed]

PromptCall(name, before) == [name |-> name, before |-> before]

\* The palette before filter_commands has been called with the query.
Palette(query) == [query |-> query, results |-> None]

\* OverlayManager::new
NewManager ==
    /\ overlays = <<>>
    /\ nextUid = 1
    /\ op = Call("new", 0)
    /\ nWrites = 0

\* No query has been typed.
NoPalette == palette = Palette(<<>>)

\* Prompt::new
NewPrompt ==
    /\ prompt = Prompt_new("M-x ", "Command")
    /\ pcall = PromptCall("new", prompt)
    /\ panicked = FALSE

\* The store after OverlayManager::new; palette and prompt stay as they are
\* here in every behaviour of the store.
Init == NewManager /\ NoPalette /\ NewPrompt

\* OverlayManager::add
Add(overlay) ==
    /\ nextUid <= MaxAdds
    /\ overlays' = add(overlays, [overlay EXCEPT !.uid = nextUid])
    /\ nextUid' = nextUid + 1
    /\ UNCHANGED nWrites
    /\ op' = Call("add", 0)
    /\ UNCHANGED promptVars

\* OverlayManager::remove_by_id
RemoveById(id) ==
    /\ overlays' = remove_by_id(overlays, id)
    /\ op' = Call("remove_by_id", Len(overlays) - Len(overlays'))
    /\ UNCHANGED <<nextUid, nWrites>>
    /\ UNCHANGED promptVars

\* OverlayManager::remove_in_range
RemoveInRange(range) ==
    /\ overlays' = remove_in_range(overlays, range)
    /\ op' = Call("remove_in_range", Len(overlays) - Len(overlays'))
    /\ UNCHANGED <<nextUid, nWrites>>
    /\ UNCHANGED promptVars

\* clear keeping the overlays that carry an id.
ClearUnidentified ==
    /\ overlays' = SelectSeq(overlays, LAMBDA o : o.id # None)
    /\ op' = Call("clear", Len(overlays) - Len(overlays'))
    /\ UNCHANGED <<nextUid, nWrites>>
    /\ UNCHANGED promptVars

\* OverlayManager::clear
Clear ==
    /\ overlays' = <<>>
    /\ op' = Call("clear", Len(overlays) - Len(overlays'))
    /\ UNCHANGED <<nextUid, nWrites>>
    /\ UNCHANGED promptVars

\* The methods taking &self: the store is left as it is, and the value
\* returned is the operator of the same name applied to the store.
AtPosition ==
    /\ op' = Call("at_position", 0)
    /\ UNCHANGED <<overlays, nextUid, nWrites>>
    /\ UNCHANGED promptVars

InRange ==
    /\ op' = Call("in_range", 0)
    /\ UNCHANGED <<overlays, nextUid, nWrites>>
    /\ UNCHANGED promptVars

GetById ==
    /\ op' = Call("get_by_id", 0)
    /\ UNCHANGED <<overlays, nextUid, nWrites>>
    /\ UNCHANGED promptVars

LenCall ==
    /\ op' = Call("len", 0)
    /\ UNCHANGED <<overlays, nextUid, nWrites>>
    /\ UNCHANGED promptVars

IsEmpty ==
    /\ op' = Call("is_empty", 0)
    /\ UNCHANGED <<overlays, nextUid, nWrites>>
    /\ UNCHANGED promptVars

All ==
    /\ op' = Call("all", 0)
    /\ UNCHANGED <<overlays, nextUid, nWrites>>
    /\ UNCHANGED promptVars

\* OverlayManager::get_by_id_mut, and the caller's write of `priority`
\* through the reference it returns (nothing is written when it returns None).
GetByIdMutPriority(id, priority) ==
    /\ nWrites < MaxWrites
    /\ overlays' =
          IF get_by_id_mut(overlays, id) = 0 THEN overlays
          ELSE [overlays EXCEPT ![get_by_id_mut(overlays, id)].priority = priority]
    /\ op' = Call("get_by_id_mut", 0)
    /\ nWrites' = IF get_by_id_mut(overlays, id) = 0 THEN nWrites ELSE nWrites + 1
    /\ UNCHANGED nextUid
    /\ UNCHANGED promptVars

\* OverlayManager::get_by_id_mut, and the caller's write of `range`.
GetByIdMutRange(id, range) ==
    /\ nWrites < MaxWrites
    /\ overlays' =
          IF get_by_id_mut(overlays, id) = 0 THEN overlays
          ELSE [overlays EXCEPT ![get_by_id_mut(overlays, id)].range = range]
    /\ op' = Call("get_by_id_mut", 0)
    /\ nWrites' = IF get_by_id_mut(overlays, id) = 0 THEN nWrites ELSE nWrites + 1
    /\ UNCHANGED nextUid
    /\ UNCHANGED promptVars

\* manager.add(preset): a producer adds one overlay of a preset category, the
\* store holding none of that category yet and all ranges coinciding.
AddPreset(overlay) ==
    /\ \A i \in DOMAIN overlays :
          /\ overlays[i].face # overlay.face
          /\ overlays[i].range = overlay.range
    /\ overlays' = add(overlays, [overlay EXCEPT !.uid = nextUid])
    /\ nextUid' = nextUid + 1
    /\ UNCHANGED nWrites
    /\ op' = Call("add", 0)
    /\ UNCHANGED promptVars

\* The calls of a producer and of the renderer, get_by_id_mut left out.
NextCore ==
    \/ \E o \in Inputs : Add(o)
    \/ \E s \in IdStrings : RemoveById(s)
    \/ \E r \in Ranges : RemoveInRange(r)
    \/ Clear
    \/ AtPosition
    \/ InRange
    \/ GetById
    \/ LenCall
    \/ IsEmpty
    \/ All

SpecCore == Init /\ [][NextCore]_vars

\* Every call, in-place updates through get_by_id_mut included.
Next ==
    \/ NextCore
    \/ \E s \in IdStrings, p \in Priorities : GetByIdMutPriority(s, p)
    \/ \E s \in IdStrings, r \in Ranges : GetByIdMutRange(s, r)

Spec == Init /\ [][Next]_vars

\* The producers of diagnostics, selection and search add their presets, in
\* any order, and the renderer asks at_position.
NextPresets ==
    \/ \E r \in Ranges, m \in Messages : AddPreset(error(r, m))
    \/ \E r \in Ranges, m \in Messages : AddPreset(warning(r, m))
    \/ \E r \in Ranges, m \in Messages : AddPreset(info(r, m))
    \/ \E r \in Ranges, m \in Messages : AddPreset(hint(r, m))
    \/ \E r \in Ranges : AddPreset(selection(r))
    \/ \E r \in Ranges : AddPreset(search_match(r))
    \/ AtPosition

SpecPresets == Init /\ [][NextPresets]_vars

\* ------------------------------------------------- the palette's behaviour

\* filter_commands is called with the query.
FilterCommands ==
    /\ palette.results = None
    /\ palette' =
          [palette EXCEPT !.results = Some(filter_commands(palette.query))]
    /\ UNCHANGED <<overlayVars, prompt, pcall, panicked>>

InitCommands ==
    /\ NewManager
    /\ NewPrompt
    /\ \E q \in Queries : palette = Palette(q)

NextCommands == FilterCommands

SpecCommands == InitCommands /\ [][NextCommands]_vars

\* -------------------------------------------------- the prompt's behaviour

\* A method of the prompt that cannot panic returns.
Returns(name, after) ==
    /\ prompt' = after
    /\ pcall' = PromptCall(name, prompt)
    /\ UNCHANGED <<overlayVars, palette, panicked>>

\* A method of the prompt panics, the prompt being left as it was since
\* String::insert and String::remove panic before they write, or it returns.
PanicsOrReturns(name, panics, after) ==
    /\ prompt' = IF panics THEN prompt ELSE after
    /\ panicked' = panics
    /\ pcall' = PromptCall(name, prompt)
    /\ UNCHANGED <<overlayVars, palette>>

\* The methods of the prompt; none is called once one has panicked.
CursorLeft ==
    /\ ~panicked
    /\ Returns("cursor_left", cursor_left(prompt))

CursorRight ==
    /\ ~panicked
    /\ Returns("cursor_right", cursor_right(prompt))

InsertChar(ch) ==
    /\ ~panicked
    /\ Len(prompt.input) < MaxInputLen
    /\ PanicsOrReturns("insert_char", insert_char_panics(prompt, ch),
                       insert_char(prompt, ch))

Backspace ==
    /\ ~panicked
    /\ PanicsOrReturns("backspace", backspace_panics(prompt),
                       backspace(prompt))

Delete ==
    /\ ~panicked
    /\ PanicsOrReturns("delete", delete_panics(prompt), delete(prompt))

MoveToStart ==
    /\ ~panicked
    /\ Returns("move_to_start", move_to_start(prompt))

MoveToEnd ==
    /\ ~panicked
    /\ Returns("move_to_end", move_to_end(prompt))

SelectNextSuggestion ==
    /\ ~panicked
    /\ Returns("select_next_suggestion", select_next_suggestion(prompt))

SelectPrevSuggestion ==
    /\ ~panicked
    /\ Returns("select_prev_suggestion", select_prev_suggestion(prompt))

\* &self: the value returned is get_final_input(prompt).
GetFinalInput ==
    /\ ~panicked
    /\ Returns("get_final_input", prompt)

\* Prompt::new or Prompt::with_suggestions
InitPrompt ==
    /\ NewManager
    /\ NoPalette
    /\ \/ prompt = Prompt_new("M-x ", "Command")
       \/ \E l \in SuggestionLists :
             prompt = with_suggestions("M-x ", "Command", l)
    /\ pcall = PromptCall("new", prompt)
    /\ panicked = FALSE

NextPrompt ==
    \/ CursorLeft
    \/ CursorRight
    \/ \E ch \in InputChars : InsertChar(ch)
    \/ Backspace
    \/ Delete
    \/ MoveToStart
    \/ MoveToEnd
    \/ SelectNextSuggestion
    \/ SelectPrevSuggestion
    \/ GetFinalInput

SpecPrompt == InitPrompt /\ [][NextPrompt]_vars

\* ------------------------------------------------------------- properties

\* The tags of a sequence of overlays, and the place of a tag in it.
Uids(s) == {s[i].uid : i \in DOMAIN s}

Pos(s, u) == CHOOSE i \in DOMAIN s : s[i].uid = u

\* A sequence of overlays is non-decreasing in priority.
Sorted(s) ==
    \A i, j \in DOMAIN s : i < j => s[i].priority <= s[j].priority

\* The tags are a sound notion of identity: no two stored overlays share one.
UidsUnique ==
    \A i, j \in DOMAIN overlays : overlays[i].uid = overlays[j].uid => i = j

\* C1: in every state reached from the empty manager by add, remove_by_id,
\* remove_in_range and clear (and the queries), all() is non-decreasing in
\* priority, whatever the sign of the priorities.
C1_AllSortedByPriority == Sorted(all(overlays))

\* C1's case: the third add pushed an overlay that the sort had to move, in a
\* store holding a negative, a zero and a positive priority.
C1_Witness ==
    /\ op.name = "add"
    /\ Len(overlays) = 3
    /\ {overlays[i].priority : i \in DOMAIN overlays} = Priorities
    /\ overlays[3].uid # 3

\* Overlays of equal priority stand in the order of their add calls.
TiesInAddOrder ==
    \A i, j \in DOMAIN overlays :
        (i < j /\ overlays[i].priority = overlays[j].priority)
            => overlays[i].uid < overlays[j].uid

\* An add step keeps the order of every pair of equal priority that was in the
\* store, and puts the new overlay (tag nextUid) behind all its ties.
AddIsStable ==
    /\ \A i, j \in DOMAIN overlays :
          (i < j /\ overlays[i].priority = overlays[j].priority)
              => Pos(overlays', overlays[i].uid) < Pos(overlays', overlays[j].uid)
    /\ \A i \in DOMAIN overlays :
          overlays[i].priority = overlays'[Pos(overlays', nextUid)].priority
              => Pos(overlays', overlays[i].uid) < Pos(overlays', nextUid)

\* C2: add is a stable insert (no pair of equal priority already in the store
\* is reordered, the new overlay goes behind its ties), hence without
\* get_by_id_mut equal-priority overlays always stand in the order added.
C2_AddIsStableInsert ==
    [][(op'.name = "add" => AddIsStable) /\ TiesInAddOrder']_vars

\* C2's case: the third add put its overlay behind the stored overlay of the
\* same priority and in front of one of greater priority.
C2_Witness ==
    /\ op.name = "add"
    /\ Len(overlays) = 3
    /\ <<overlays[1].uid, overlays[2].uid, overlays[3].uid>> = <<1, 3, 2>>
    /\ overlays[1].priority = overlays[2].priority
    /\ overlays[2].priority < overlays[3].priority

\* C3: at_position, in_range and all return overlays in ascending-priority
\* order in every reachable state, states reached by an in-place update
\* through get_by_id_mut included.
C3_QueriesAscendingAfterUpdate ==
    /\ Sorted(all(overlays))
    /\ \A p \in Positions : Sorted(at_position(overlays, p))
    /\ \A r \in Ranges : Sorted(in_range(overlays, r))

\* res holds exactly the overlays of s that Keep picks: none missing, none
\* extra, each as it stands in s, and in the order of s.
ExactlyThose(res, s, Keep(_)) ==
    /\ Uids(res) = {s[i].uid : i \in {j \in DOMAIN s : Keep(s[j])}}
    /\ \A k \in DOMAIN res : res[k] = s[Pos(s, res[k].uid)]
    /\ \A k, l \in DOMAIN res :
          k < l => Pos(s, res[k].uid) < Pos(s, res[l].uid)

\* C4: in every state and for every position p, at_position(p) is exactly the
\* overlays that contain p, duplicates kept, as a subsequence of all() in
\* store order; on the empty store it is empty.
C4_AtPositionExact ==
    \A p \in Positions :
        /\ ExactlyThose(at_position(overlays, p), all(overlays),
                        LAMBDA o : contains(o, p))
        /\ is_empty(overlays) => at_position(overlays, p) = <<>>

\* C4's case: at_position was called on a store of three overlays out of
\* priority order, and for some position it returns the first and the third,
\* two overlays equal in every field the store reads.
C4_Witness ==
    /\ op.name = "at_position"
    /\ Len(overlays) = 3
    /\ ~Sorted(overlays)
    /\ \E p \in Positions :
          /\ at_position(overlays, p) = <<overlays[1], overlays[3]>>
          /\ [overlays[1] EXCEPT !.uid = 0] = [overlays[3] EXCEPT !.uid = 0]

\* C5: in every state and for every query range r, in_range(r) is exactly the
\* overlays that overlap r, as a subsequence of all() in store order; on the
\* empty store it is empty.
C5_InRangeExact ==
    \A r \in Ranges :
        /\ ExactlyThose(in_range(overlays, r), all(overlays),
                        LAMBDA o : overlaps(o, r))
        /\ is_empty(overlays) => in_range(overlays, r) = <<>>

\* C5's case: in_range was called on a store of three overlays, and for some
\* range it returns the first and the third and leaves out the second, which
\* touches the range.
C5_Witness ==
    /\ op.name = "in_range"
    /\ Len(overlays) = 3
    /\ \E r \in Ranges :
          /\ in_range(overlays, r) = <<overlays[1], overlays[3]>>
          /\ overlays[2].range.start = r.end
          /\ overlays[2].range.start < overlays[2].range.end

\* C6: remove_in_range(r) takes out exactly the overlays that overlap r; every
\* other overlay stays, with its fields and in the same relative order; when
\* no overlay overlaps r the store is left as it was.
C6_RemoveInRangeExact ==
    [][op'.name = "remove_in_range" =>
          \A r \in Ranges :
              RemoveInRange(r) =>
                  /\ ExactlyThose(overlays', overlays,
                                  LAMBDA o : ~overlaps(o, r))
                  /\ (\A i \in DOMAIN overlays : ~overlaps(overlays[i], r))
                        => overlays' = overlays]_vars

\* C6's case: a remove_in_range call took the middle overlay out of a store of
\* three and left an overlay that touches the removed one's range.
C6_Witness ==
    /\ op = Call("remove_in_range", 1)
    /\ nextUid = 4
    /\ Len(overlays) = 2
    /\ overlays[1].uid = 1 /\ overlays[2].uid = 3
    /\ \E i \in DOMAIN overlays :
          /\ overlays[i].range.start < overlays[i].range.end
          /\ overlays[i].range.start > 0

\* C7: remove_by_id(x) deletes every overlay whose id is x, deletes no overlay
\* with no id or another id, keeps the survivors in their relative order, is a
\* no-op when nothing matches, and get_by_id(x) is none right after it.
C7_RemoveByIdExact ==
    [][op'.name = "remove_by_id" =>
          \A x \in IdStrings :
              RemoveById(x) =>
                  /\ ExactlyThose(overlays', overlays,
                                  LAMBDA o : o.id # Some(x))
                  /\ (\A i \in DOMAIN overlays : overlays[i].id # Some(x))
                        => overlays' = overlays
                  /\ get_by_id(overlays', x) = None]_vars

\* C7's case: a remove_by_id call deleted a group of two overlays sharing the
\* id and left an overlay carrying another id.
C7_Witness ==
    /\ op = Call("remove_by_id", 2)
    /\ Len(overlays) = 1
    /\ overlays[1].id # None

\* C8: removal is idempotent: after any remove_by_id(x), a second
\* remove_by_id(x) leaves the store (same overlays, same order) as the first
\* left it, and likewise for remove_in_range(r).
C8_RemovalIdempotent ==
    [][/\ op'.name = "remove_by_id" =>
             \A x \in IdStrings :
                 RemoveById(x) => remove_by_id(overlays', x) = overlays'
       /\ op'.name = "remove_in_range" =>
             \A r \in Ranges :
                 RemoveInRange(r) => remove_in_range(overlays', r) = overlays'
      ]_vars

\* C8's case: a remove_in_range call took two overlays out and left one with a
\* non-empty range, which the same call made again has to keep.
C8_Witness ==
    /\ op = Call("remove_in_range", 2)
    /\ Len(overlays) = 1
    /\ overlays[1].range.start < overlays[1].range.end

QueryNames ==
    {"at_position", "in_range", "get_by_id", "len", "is_empty", "all"}

\* The overlay at place i of the store is in the store after the step, with
\* the fields it had.
Stays(i) == \E j \in DOMAIN overlays' : overlays'[j] = overlays[i]

\* C9: the store never removes or alters overlays on its own: add makes
\* len() one greater and keeps every overlay; the queries leave the store as
\* it is; an overlay goes only by a remove_by_id with its id, a
\* remove_in_range with a range it overlaps, or a clear.
C9_NoRemovalOnOwnInitiative ==
    [][/\ op'.name = "add" =>
             /\ len(overlays') = len(overlays) + 1
             /\ \A i \in DOMAIN overlays : Stays(i)
       /\ op'.name \in QueryNames => overlays' = overlays
       /\ \A i \in DOMAIN overlays :
             ~Stays(i) =>
                 \/ Clear
                 \/ \E x \in IdStrings :
                       RemoveById(x) /\ overlays[i].id = Some(x)
                 \/ \E r \in Ranges :
                       RemoveInRange(r) /\ overlaps(overlays[i], r)
      ]_vars

\* C9's case: the third add came to a store holding an overlay with the id of
\* the new one, and all three are there.
C9_Witness ==
    /\ op.name = "add"
    /\ Len(overlays) = 3
    /\ \E i, j \in DOMAIN overlays :
          /\ overlays[i].uid = 3
          /\ i # j
          /\ overlays[i].id # None
          /\ overlays[i].id = overlays[j].id

\* Positions a caller may ask about: those of the buffer and one past them.
ProbePositions == 0..(MaxPos + 1)

\* C10: an overlay with range [start, end) contains exactly the positions p
\* with start <= p < end: start is in (when the range is not empty), end is out.
C10_ContainsHalfOpen ==
    \A i \in DOMAIN overlays :
        LET o == overlays[i]
        IN  /\ {p \in ProbePositions : contains(o, p)}
                  = (o.range.start)..(o.range.end - 1)
            /\ ~contains(o, o.range.end)
            /\ o.range.start < o.range.end => contains(o, o.range.start)

\* C10's case: the store holds an overlay over [0, 2): it contains 0 and 1 and
\* does not contain 2.
C10_Witness ==
    \E i \in DOMAIN overlays :
        /\ overlays[i].range = [start |-> 0, end |-> 2]
        /\ contains(overlays[i], 0)
        /\ contains(overlays[i], 1)
        /\ ~contains(overlays[i], 2)

\* C11: an overlay overlaps a query range r iff its start is below r.end and
\* r.start is below its end; ranges that touch (one ends where the other
\* starts) never overlap, and two empty ranges never overlap.
C11_OverlapsStrict ==
    \A i \in DOMAIN overlays : \A r \in Ranges :
        LET o == overlays[i]
        IN  /\ overlaps(o, r) <=>
                  (o.range.start < r.end /\ r.start < o.range.end)
            /\ (o.range.end = r.start \/ r.end = o.range.start)
                  => ~overlaps(o, r)
            /\ (o.range.start = o.range.end /\ r.start = r.end)
                  => ~overlaps(o, r)

\* C11's case: the store holds an overlay over [0, 1): it overlaps [0, 2) and
\* does not overlap [1, 2), which it touches.
C11_Witness ==
    \E i \in DOMAIN overlays :
        /\ overlays[i].range = [start |-> 0, end |-> 1]
        /\ overlaps(overlays[i], [start |-> 0, end |-> 2])
        /\ ~overlaps(overlays[i], [start |-> 1, end |-> 2])

\* C12: get_by_id(x) is the earliest overlay of all() whose id is x, and none
\* iff no stored overlay has id x; an overlay with no id is never returned;
\* get_by_id_mut(x) refers to the same element.
C12_GetByIdFirst ==
    \A x \in IdStrings :
        LET g == get_by_id(overlays, x)
            HasId == \E i \in DOMAIN overlays : overlays[i].id = Some(x)
        IN  /\ g = None <=> ~HasId
            /\ g # None =>
                  /\ g[1].id = Some(x)
                  /\ g[1] = overlays[Pos(overlays, g[1].uid)]
                  /\ \A j \in 1..(Pos(overlays, g[1].uid) - 1) :
                        overlays[j].id # Some(x)
            /\ get_by_id_mut(overlays, x) = 0 <=> g = None
            /\ get_by_id_mut(overlays, x) # 0 =>
                  g = Some(overlays[get_by_id_mut(overlays, x)])

\* C12's case: get_by_id was called on a store whose first overlay has no id
\* and whose second and third share one: it returns the second.
C12_Witness ==
    /\ op.name = "get_by_id"
    /\ Len(overlays) = 3
    /\ overlays[1].id = None
    /\ overlays[2].id # None
    /\ overlays[3].id = overlays[2].id
    /\ \E x \in IdStrings : get_by_id(overlays, x) = Some(overlays[2])

\* C13: right after clear() the store is empty, whatever it held: is_empty()
\* is true, len() is 0, and at_position, in_range and get_by_id find nothing.
C13_ClearEmpties ==
    op.name = "clear" =>
        /\ is_empty(overlays)
        /\ len(overlays) = 0
        /\ \A p \in ProbePositions : at_position(overlays, p) = <<>>
        /\ \A r \in Ranges : in_range(overlays, r) = <<>>
        /\ \A x \in IdStrings : get_by_id(overlays, x) = None

\* C13's case: a clear call took three overlays out, an in-place update having
\* been made before it.
C13_Witness ==
    /\ op = Call("clear", 3)
    /\ nWrites = 1

\* C16: whatever priorities were written through get_by_id_mut before it,
\* right after an add the whole of all() is non-decreasing in priority again.
C16_AddRestoresOrder ==
    [][op'.name = "add" => Sorted(all(overlays'))]_vars

\* C16's case: overlay 1 (no id, priority 0) and overlay 2 (with an id, added
\* with priority 0 behind it) were in the store, overlay 2 was given priority
\* -1 in place, which left the store out of order, and the third add has put
\* overlay 2 in front of overlay 1.
C16_Witness ==
    /\ op.name = "add"
    /\ nWrites = 1
    /\ Len(overlays) = 3
    /\ \E i, j \in DOMAIN overlays :
          /\ i < j
          /\ overlays[i].uid = 2 /\ overlays[j].uid = 1
          /\ overlays[i].id # None /\ overlays[j].id = None
          /\ overlays[i].priority = -1 /\ overlays[j].priority = 0

\* An overlay is in a sequence of overlays.
In(o, s) == \E k \in DOMAIN s : s[k] = o

\* C17: an empty overlay (start = end) is taken by add; at_position returns it
\* for no position; in_range(r) returns it only if r is not empty; and
\* remove_in_range(r) takes it out exactly when in_range(r) returns it.
C17_EmptyOverlay ==
    /\ op.name = "add" => \E i \in DOMAIN overlays : overlays[i].uid = nextUid - 1
    /\ \A i \in DOMAIN overlays :
          LET o == overlays[i]
          IN  o.range.start = o.range.end =>
                  /\ \A p \in ProbePositions : ~In(o, at_position(overlays, p))
                  /\ \A r \in Ranges :
                        /\ In(o, in_range(overlays, r)) => r.start < r.end
                        /\ In(o, in_range(overlays, r))
                              <=> ~In(o, remove_in_range(overlays, r))

\* C17's case: add has taken the empty overlay [1, 1); in_range([0, 2))
\* returns it, in_range([1, 1)) and in_range([0, 1)) do not.
C17_Witness ==
    /\ op.name = "add"
    /\ \E i \in DOMAIN overlays :
          /\ overlays[i].uid = nextUid - 1
          /\ overlays[i].range = [start |-> 1, end |-> 1]
          /\ In(overlays[i], in_range(overlays, [start |-> 0, end |-> 2]))
          /\ ~In(overlays[i], in_range(overlays, [start |-> 1, end |-> 1]))
          /\ ~In(overlays[i], in_range(overlays, [start |-> 0, end |-> 1]))

\* The preset category an overlay's face belongs to.
Category(o) ==
    CASE o.face = Underline("Red", "Wavy") -> "error"
      [] o.face = Underline("Yellow", "Wavy") -> "warning"
      [] o.face = Underline("Blue", "Wavy") -> "info"
      [] o.face = Underline("Gray", "Dotted") -> "hint"
      [] o.face = Background("Rgb(38, 79, 120)") -> "selection"
      [] o.face = Background("Rgb(72, 72, 0)") -> "search-match"
      [] OTHER -> "other"

Categories(s) == [k \in DOMAIN s |-> Category(s[k])]

\* C14: once one overlay of each preset category has been added with
\* coinciding ranges, whatever the order of the add calls, at_position returns
\* for every covered position the six in the order selection, search-match,
\* hint, info, warning, error.
C14_PresetOrder ==
    Len(overlays) = 6 =>
        \A p \in ProbePositions :
            contains(overlays[1], p) =>
                Categories(at_position(overlays, p)) =
                    <<"selection", "search-match", "hint", "info", "warning",
                      "error">>

\* The six presets stand on [0, 2), the error added first and the selection
\* last, and position 1 is covered.
C14_Witness ==
    /\ Len(overlays) = 6
    /\ overlays[1].range = [start |-> 0, end |-> 2]
    /\ contains(overlays[1], 1)
    /\ Len(at_position(overlays, 1)) = 6
    /\ overlays[6].uid = 1
    /\ overlays[1].uid = 6

\* The overlay the last add call moved into the store.
Added == overlays'[Pos(overlays', nextUid)]

\* C15: every preset constructor keeps the given range and yields its fixed
\* priority (error 10, warning 5, info 3, hint 1, selection -10, search-match
\* -5), the diagnostics carry the message they were given, none included,
\* selection and search-match carry none, and no preset has an id.
C15_PresetFields ==
    [][ /\ \A r \in Ranges, m \in Messages :
              /\ AddPreset(error(r, m)) =>
                    /\ Added.range = r /\ Added.priority = 10
                    /\ Added.message = m /\ Added.id = None
              /\ AddPreset(warning(r, m)) =>
                    /\ Added.range = r /\ Added.priority = 5
                    /\ Added.message = m /\ Added.id = None
              /\ AddPreset(info(r, m)) =>
                    /\ Added.range = r /\ Added.priority = 3
                    /\ Added.message = m /\ Added.id = None
              /\ AddPreset(hint(r, m)) =>
                    /\ Added.range = r /\ Added.priority = 1
                    /\ Added.message = m /\ Added.id = None
        /\ \A r \in Ranges :
              /\ AddPreset(selection(r)) =>
                    /\ Added.range = r /\ Added.priority = -10
                    /\ Added.message = None /\ Added.id = None
              /\ AddPreset(search_match(r)) =>
                    /\ Added.range = r /\ Added.priority = -5
                    /\ Added.message = None /\ Added.id = None
      ]_vars

\* An error built with the message "msg", a warning built with no message and
\* a selection stand in the store, on [1, 2).
C15_Witness ==
    /\ op.name = "add"
    /\ \E i, j, k \in DOMAIN overlays :
          /\ Category(overlays[i]) = "error"
          /\ overlays[i].message = Some("msg")
          /\ overlays[i].range = [start |-> 1, end |-> 2]
          /\ Category(overlays[j]) = "warning"
          /\ overlays[j].message = None
          /\ Category(overlays[k]) = "selection"

\* The chars a and b are the same letter, whatever their case, or the same
\* char.
SameLetter(a, b) ==
    \/ a = b
    \/ \E k \in DOMAIN UpperCase :
          {a, b} \subseteq {UpperCase[k], LowerCase[k]}

\* The chars of q appear in n in order, not necessarily adjacent, case
\* ignored.
RECURSIVE IsSubsequence(_, _)
IsSubsequence(q, n) ==
    \/ q = <<>>
    \/ \E i \in DOMAIN n :
          /\ SameLetter(n[i], q[1])
          /\ IsSubsequence(Tail(q), SubSeq(n, i + 1, Len(n)))

\* The suggestions res stand for the commands cmds, one for one and in order:
\* the name as text, the description as description.
SuggestionsOf(res, cmds) ==
    /\ Len(res) = Len(cmds)
    /\ \A k \in DOMAIN cmds :
          /\ res[k].text = cmds[k].name
          /\ res[k].description = Some(cmds[k].description)

\* C18: filter_commands returns, for the empty query, a suggestion for every
\* command of the static list, and for any other query a suggestion for
\* exactly the commands whose lower-cased name has the chars of the
\* lower-cased query as a subsequence; either way in the order of the static
\* list, the name as text and the description attached.
C18_FilterCommands ==
    palette.results # None =>
        /\ palette.query = <<>> =>
              SuggestionsOf(palette.results[1], get_all_commands)
        /\ palette.query # <<>> =>
              SuggestionsOf(palette.results[1],
                  SelectSeq(get_all_commands,
                      LAMBDA c : IsSubsequence(palette.query, c.name)))

\* The query "Sc" has been filtered: six commands are suggested, "Select All"
\* first and "Remove Secondary Cursors" last, "Save File" is not.
C18_Witness ==
    /\ palette.query = <<"S", "c">>
    /\ palette.results # None
    /\ Len(palette.results[1]) = 6
    /\ palette.results[1][1].text = get_all_commands[10].name
    /\ palette.results[1][6].text = get_all_commands[17].name
    /\ palette.results[1][1].description = Some("Select all text in the buffer")

\* C19: get_final_input returns the value of the selected suggestion whenever
\* one is selected (its value field, or its text when it has no value),
\* whatever the input holds, and the input only when none is selected.
C19_FinalInput ==
    /\ prompt.selected_suggestion # None =>
          /\ prompt.selected_suggestion[1] + 1 \in DOMAIN prompt.suggestions
          /\ LET s == prompt.suggestions[prompt.selected_suggestion[1] + 1]
             IN  get_final_input(prompt) =
                     IF s.value # None THEN s.value[1] ELSE s.text
    /\ prompt.selected_suggestion = None =>
          get_final_input(prompt) = prompt.input

\* The user has typed "a", the second suggestion, which has the value "c", is
\* selected, and get_final_input is called: it returns "c".
C19_Witness ==
    /\ pcall.name = "get_final_input"
    /\ prompt.input = <<"a">>
    /\ prompt.selected_suggestion = Some(1)
    /\ prompt.suggestions[2].value = Some(<<"c">>)
    /\ get_final_input(prompt) = <<"c">>

\* C20: backspace deletes the char before the cursor: a backspace that
\* follows at once an insert_char(ch), for any prompt and any ch, ch of more
\* than one byte included, returns and leaves input and cursor_pos as they
\* were before the insert; and a backspace at cursor_pos 0 changes nothing.
C20_BackspaceUndoesInsert ==
    [][ /\ (pcall.name = "insert_char" /\ Backspace) =>
              /\ ~panicked'
              /\ prompt'.input = pcall.before.input
              /\ prompt'.cursor_pos = pcall.before.cursor_pos
        /\ (prompt.cursor_pos = 0 /\ Backspace) =>
              /\ ~panicked'
              /\ prompt' = prompt
      ]_vars

\* C21: in every state a prompt built by Prompt::new or
\* Prompt::with_suggestions reaches through its cursor and edit methods,
\* 0 <= cursor_pos <= input.len(); cursor_left at 0 and cursor_right at the
\* end of the input change nothing; and delete leaves cursor_pos as it was.
C21_CursorInBounds ==
    /\ 0 <= prompt.cursor_pos
    /\ prompt.cursor_pos <= str_len(prompt.input)
    /\ (pcall.name = "cursor_left" /\ pcall.before.cursor_pos = 0) =>
          prompt = pcall.before
    /\ (/\ pcall.name = "cursor_right"
        /\ pcall.before.cursor_pos = str_len(pcall.before.input)) =>
          prompt = pcall.before
    /\ pcall.name = "delete" => prompt.cursor_pos = pcall.before.cursor_pos

\* delete has taken the two-byte char out of an input of "a" and that char,
\* the cursor standing after the "a": cursor_pos is still 1, now the length
\* of the input.
C21_Witness ==
    /\ pcall.name = "delete"
    /\ ~panicked
    /\ pcall.before.input = <<"a", "é">>
    /\ pcall.before.cursor_pos = 1
    /\ prompt.input = <<"a">>
    /\ prompt.cursor_pos = 1
    /\ prompt.cursor_pos = str_len(prompt.input)

\* select_next_suggestion called k times.
RECURSIVE SelectNextTimes(_, _)
SelectNextTimes(p, k) ==
    IF k = 0 THEN p ELSE SelectNextTimes(select_next_suggestion(p), k - 1)

\* C22: with n suggestions, the selection of a prompt is none in every state
\* when n = 0; when n >= 1 it is Some(i) with i < n in every state,
\* select_next_suggestion takes i to (i + 1) mod n and
\* select_prev_suggestion to (i - 1) mod n, each undoes the other, and n
\* calls of select_next_suggestion in a row come back to i.
C22_SuggestionCycle ==
    LET n == Len(prompt.suggestions)
        sel == prompt.selected_suggestion
    IN  /\ n = 0 => sel = None
        /\ n >= 1 =>
              /\ sel # None
              /\ sel[1] \in 0..(n - 1)
              /\ pcall.name = "select_next_suggestion" =>
                    sel[1] = (pcall.before.selected_suggestion[1] + 1) % n
              /\ pcall.name = "select_prev_suggestion" =>
                    sel[1] = (pcall.before.selected_suggestion[1] + n - 1) % n
              /\ select_prev_suggestion(select_next_suggestion(prompt)) = prompt
              /\ select_next_suggestion(select_prev_suggestion(prompt)) = prompt
              /\ SelectNextTimes(prompt, n) = prompt

\* With three suggestions select_next_suggestion has just wrapped from the
\* last one to the first.
C22_Witness ==
    /\ Len(prompt.suggestions) = 3
    /\ pcall.name = "select_next_suggestion"
    /\ pcall.before.selected_suggestion = Some(2)
    /\ prompt.selected_suggestion = Some(0)

====
